---- MODULE Spec2Model ----
(***************************************************************************)
(* Model of src/3_bigquery_utils/compare_table_contents.py: the command    *)
(* line entry point main(), the pipeline execute_comparison() and the      *)
(* TableComparator operations it drives.                                   *)
(*                                                                         *)
(* A Python str is a sequence of one-character strings, so that split and  *)
(* strip are computed as the code computes them; ToStr renders such a      *)
(* sequence as text.  An Optional value is a set: {} is None and {v} is v. *)
(* The query-execution collaborator is opaque: every query it is given is  *)
(* either answered with some result of the right shape or raises.          *)
(***************************************************************************)
EXTENDS Integers, Sequences, FiniteSets, TLC

VARIABLES
    pc,               \* position of the process: "main", a query step, "analyze", "done"
    table1,           \* args.table1
    table2,           \* args.table2
    specific_columns, \* args.specific_columns (Optional[str])
    args_where_clause,    \* args.where_clause (Optional[str])
    args_order_by_clause, \* args.order_by_clause (Optional[str])
    where_clause,     \* execute_comparison's where_clause once normalized
    order_by_clause,  \* execute_comparison's order_by_clause once normalized
    columns,          \* execute_comparison's columns (the projection)
    fn_in,            \* a QueryBuilder function called alone: its name and arguments
    fn_out,           \* what that call returned
    parts1,           \* (table1_project, table1_dataset, table1_name)
    parts2,           \* (table2_project, table2_dataset, table2_name)
    client_created,   \* bigquery.Client(...) was constructed
    exec_called,      \* execute_comparison was entered
    pending,          \* the query the process is blocked on (Optional step)
    queries,          \* every query handed to client.query, in order
    calls,            \* history of collaborator events and of the reconciliation step
    schema1,          \* result of the first get_table_schema
    schema2,          \* result of the second get_table_schema
    schema_analysis,  \* result of analyze_schemas (Optional record)
    count1,           \* result of the first get_row_count (Optional int)
    count2,           \* result of the second get_row_count (Optional int)
    has_differences,  \* result of check_data_differences (Optional bool)
    stdout,           \* what the process reported, in order
    sink_writes,      \* each write of table_row_differences.csv: its number of rows
    sink_file,        \* table_row_differences.csv: None, or who wrote it and its rows
    exit_status       \* Optional process exit status

vars == << pc, table1, table2, specific_columns, args_where_clause,
           args_order_by_clause, where_clause, order_by_clause, columns,
           fn_in, fn_out, parts1, parts2, client_created,
           exec_called, pending, queries, calls, schema1, schema2,
           schema_analysis, count1, count2, has_differences, stdout,
           sink_writes, sink_file, exit_status >>

(***************************************************************************)
(* Bounds and input domains                                                *)
(***************************************************************************)
MaxCount == 1       \* row counts the engine answers with: 0..MaxCount
MaxRows == 1        \* rows the export query answers with: 0..MaxRows
SampleLimit == 10    \* limit=10 of the sample queries

None == {}
Some(v) == {v}
Val(o) == CHOOSE v \in o : TRUE

\* --table1 / --table2 values: well formed, the same table name in another
\* project, another table name with an empty dataset segment, two and four
\* segments, a trailing separator, no separator at all, the empty string.
TablePaths ==
    { <<"p", ".", "d", ".", "t">>,
      <<"q", ".", "d", ".", "t">>,
      <<"p", ".", ".", "u">>,
      <<"p", ".", "d">>,
      <<"p", ".", "d", ".", "t", ".", "x">>,
      <<"p", ".", "d", ".", "t", ".">>,
      <<"p", "d", "t">>,
      << >> }

\* --specific-columns values
SpecificInputs ==
    { None,
      Some(<<"a">>),
      Some(<<"a", ",", " ", "z">>) }

\* --specific-columns values for analyze_schemas with a requested subset:
\* none, the empty string, one name, every name, blanks around the names, a
\* name no schema has, a repeated name
SubsetInputs ==
    { None,
      Some(<< >>),
      Some(<<"a">>),
      Some(<<"b">>),
      Some(<<"a", ",", "b">>),
      Some(<<"a", ",", " ", "b">>),
      Some(<<"z">>),
      Some(<<"a", ",", " ", "z">>),
      Some(<<" ", "b", " ", ",", "a">>),
      Some(<<"a", ",", "a">>) }

\* Column names and declared types the catalog answers with in a run
RunCols == {"a", "b"}
RunTypes == {"INT", "STRING"}

\* Column names and declared types for analyze_schemas taken alone
AllCols == {"a", "b", "c"}
AllTypes == {"INT", "STRING", "BOOL"}

(***************************************************************************)
(* Python str and collection helpers                                       *)
(***************************************************************************)
RECURSIVE ToStr(_)
ToStr(s) == IF s = <<>> THEN "" ELSE Head(s) \o ToStr(Tail(s))

\* str.split(sep) for a one-character separator
RECURSIVE Split(_, _)
Split(s, sep) ==
    IF \A i \in DOMAIN s : s[i] # sep
    THEN << s >>
    ELSE LET i == CHOOSE k \in DOMAIN s :
                      s[k] = sep /\ \A j \in 1..(k - 1) : s[j] # sep
         IN  << SubSeq(s, 1, i - 1) >> \o Split(SubSeq(s, i + 1, Len(s)), sep)

\* str.isspace() of one character
IsSpace(c) == c \in {" ", "\t", "\n"}

\* str.strip()
RECURSIVE Strip(_)
Strip(s) ==
    IF s = <<>> THEN s
    ELSE IF IsSpace(Head(s)) THEN Strip(Tail(s))
    ELSE IF IsSpace(s[Len(s)]) THEN Strip(SubSeq(s, 1, Len(s) - 1))
    ELSE s

\* str.lower(), on the letters the model writes in upper case
LowerChar(c) ==
    CASE c = "W" -> "w" [] c = "H" -> "h" [] c = "E" -> "e" [] c = "R" -> "r"
      [] c = "O" -> "o" [] c = "D" -> "d" [] c = "B" -> "b" [] c = "Y" -> "y"
      [] OTHER -> c

Lower(s) == [ i \in DOMAIN s |-> LowerChar(s[i]) ]

\* str.startswith(prefix)
StartsWith(s, prefix) ==
    Len(s) >= Len(prefix) /\ SubSeq(s, 1, Len(prefix)) = prefix

\* set(col[0] for col in schema)
ColumnSet(schema) == { schema[i][1] : i \in DOMAIN schema }

\* dict(schema): a later pair overrides an earlier one with the same name
SchemaDict(schema) ==
    [ n \in ColumnSet(schema) |->
        LET last == CHOOSE i \in DOMAIN schema :
                        schema[i][1] = n
                        /\ \A j \in DOMAIN schema : schema[j][1] = n => j <= i
        IN  schema[last][2] ]

\* All schemas (ordered (name, type) pairs, names unique) over the given
\* column names and types
SchemasOver(cols, types) ==
    UNION { { s \in [1..n -> cols \X types] :
                \A i, j \in 1..n : s[i][1] = s[j][1] => i = j } :
            n \in 0..Cardinality(cols) }

\* the schemas the catalog answers with in a run
RunSchemas == SchemasOver(RunCols, RunTypes)

\* All orders in which a set can be iterated
Orders(S) ==
    { o \in [1..Cardinality(S) -> S] :
        \A i, j \in 1..Cardinality(S) : o[i] = o[j] => i = j }

(***************************************************************************)
(* QueryBuilder: the clause normalizers                                    *)
(***************************************************************************)
\* "if not clause:" is false of a non-empty string only
Truthy(s) == s # None /\ Val(s) # << >>

KwWhere == << "w", "h", "e", "r", "e" >>
KwOrderBy == << "o", "r", "d", "e", "r", " ", "b", "y" >>

\* normalize_where_clause that compares without lower()
normalize_where_clause_case_sensitive(clause) ==
    IF ~Truthy(clause) THEN None
    ELSE LET stripped == Strip(Val(clause))
         IN  IF ~StartsWith(stripped, KwWhere)
             THEN Some(KwWhere \o << " " >> \o stripped)
             ELSE Some(stripped)

\* QueryBuilder.normalize_where_clause
normalize_where_clause(clause) ==
    IF ~Truthy(clause) THEN None
    ELSE LET stripped == Strip(Val(clause))
         IN  IF ~StartsWith(Lower(stripped), KwWhere)
             THEN Some(KwWhere \o << " " >> \o stripped)
             ELSE Some(stripped)

\* QueryBuilder.normalize_order_by_clause
normalize_order_by_clause(clause) ==
    IF ~Truthy(clause) THEN None
    ELSE LET stripped == Strip(Val(clause))
         IN  IF ~StartsWith(Lower(stripped), KwOrderBy)
             THEN Some(KwOrderBy \o << " " >> \o stripped)
             ELSE Some(stripped)

\* the characters of the model's column names, in code-point order
Alphabet == << "B", "Z", "_", "a", "b", "c", "x", "y", "z" >>

\* ord(c), up to the order of the code points
CodePoint(c) == CHOOSE i \in 1..Len(Alphabet) : Alphabet[i] = c

\* str.__lt__: s < t, lexicographic by code point
RECURSIVE StrLess(_, _)
StrLess(s, t) ==
    IF t = << >> THEN FALSE
    ELSE IF s = << >> THEN TRUE
    ELSE IF Head(s) # Head(t) THEN CodePoint(Head(s)) < CodePoint(Head(t))
    ELSE StrLess(Tail(s), Tail(t))

\* item put into an ascending list, after the items equal to it
RECURSIVE Insert(_, _)
Insert(item, list) ==
    IF list = << >> THEN << item >>
    ELSE IF StrLess(item, Head(list)) THEN << item >> \o list
    ELSE << Head(list) >> \o Insert(item, Tail(list))

\* sorted(iterable): the items of the iteration in ascending order
RECURSIVE sorted(_)
sorted(items) ==
    IF items = << >> THEN << >>
    ELSE Insert(items[Len(items)], sorted(SubSeq(items, 1, Len(items) - 1)))

\* sep.join(items)
RECURSIVE Join(_, _)
Join(items, sep) ==
    IF items = << >> THEN << >>
    ELSE IF Len(items) = 1 THEN items[1]
    ELSE items[1] \o sep \o Join(Tail(items), sep)

\* build_column_list that joins the set in its iteration order
build_column_list_unsorted(cols, common_columns) ==
    IF Truthy(cols) THEN Val(cols)
    ELSE IF Truthy(common_columns)
         THEN Join(Val(common_columns), << ",", " " >>)
         ELSE << "*" >>

\* QueryBuilder.build_column_list(columns, common_columns); the set
\* common_columns is given as the sequence its iteration yields
build_column_list(cols, common_columns) ==
    IF Truthy(cols) THEN Val(cols)
    ELSE IF Truthy(common_columns)
         THEN Join(sorted(Val(common_columns)), << ",", " " >>)
         ELSE << "*" >>

(***************************************************************************)
(* QueryBuilder: the query texts                                           *)
(*                                                                         *)
(* A query text is a sequence of atoms.  Every white-space character is an *)
(* atom of its own, the words and signs of the literals of the code are    *)
(* one atom each, and the strings the caller supplies (relation, column    *)
(* list, clauses, label) are spliced in character by character.            *)
(***************************************************************************)
Digit == << "0", "1", "2", "3", "4", "5", "6", "7", "8", "9" >>

\* f"{n}" of a natural number
RECURSIVE Decimal(_)
Decimal(n) ==
    IF n < Len(Digit) THEN << Digit[n + 1] >>
    ELSE Decimal(n \div Len(Digit)) \o << Digit[(n % Len(Digit)) + 1] >>

\* "if limit:" is false of None and of 0
TruthyInt(n) == n # None /\ Val(n) # 0

\* build_row_count_query that leaves the filter out
build_row_count_query_unfiltered(table, where) ==
    << "SELECT", " ", "COUNT(*)", " ", "as", " ", "count", " ", "FROM", " " >>
    \o table

\* QueryBuilder.build_row_count_query(table, where_clause)
build_row_count_query(table, where) ==
    << "SELECT", " ", "COUNT(*)", " ", "as", " ", "count", " ", "FROM", " " >>
    \o table
    \o (IF Truthy(where) THEN << " " >> \o Val(where) ELSE << >>)

\* where_part of build_except_distinct_query
where_part(where) == IF Truthy(where) THEN << " " >> \o Val(where) ELSE << >>

\* except_query of build_except_distinct_query
except_query(t1, t2, cols, where) ==
    << "\n", "SELECT", " " >> \o cols \o << " ", "FROM", " " >> \o t1
    \o where_part(where)
    \o << "\n", "EXCEPT", " ", "DISTINCT", "\n", "SELECT", " " >> \o cols
    \o << " ", "FROM", " " >> \o t2 \o where_part(where)

\* outer_select of build_except_distinct_query
outer_select(add_source_column) ==
    IF Truthy(add_source_column)
    THEN << "SELECT", " ", "*,", " ", "'" >> \o Val(add_source_column)
         \o << "'", " ", "as", " ", "source_table" >>
    ELSE << "SELECT", " ", "*" >>

\* NeedsWrap that looks at the provenance label only
NeedsWrapForLabelOnly(order, add_source_column) == Truthy(add_source_column)

\* "if add_source_column or order_by_clause:"
NeedsWrap(order, add_source_column) ==
    Truthy(add_source_column) \/ Truthy(order)

\* build_except_distinct_query with one wrap for the label and another
\* for the ordering
build_except_distinct_query_wrap_each(t1, t2, cols, where, order, limit, label) ==
    LET inner == except_query(t1, t2, cols, where)
        labelled ==
            IF Truthy(label)
            THEN outer_select(label)
                 \o << " ", "FROM", " ", "(" >> \o inner \o << ")" >>
            ELSE inner
        ordered ==
            IF Truthy(order)
            THEN << "SELECT", " ", "*", " ", "FROM", " ", "(" >> \o labelled
                 \o << ")", " " >> \o Val(order)
            ELSE labelled
        query ==
            IF TruthyInt(limit)
            THEN ordered \o << " ", "LIMIT", " " >> \o Decimal(Val(limit))
            ELSE ordered
    IN  Strip(query)

\* QueryBuilder.build_except_distinct_query
build_except_distinct_query(t1, t2, cols, where, order, limit, label) ==
    LET inner == except_query(t1, t2, cols, where)
        wrapped ==
            IF NeedsWrap(order, label)
            THEN outer_select(label)
                 \o << " ", "FROM", " ", "(" >> \o inner \o << ")" >>
                 \o (IF Truthy(order) THEN << " " >> \o Val(order) ELSE << >>)
            ELSE inner
        query ==
            IF TruthyInt(limit)
            THEN wrapped \o << " ", "LIMIT", " " >> \o Decimal(Val(limit))
            ELSE wrapped
    IN  Strip(query)

\* build_union_query that orders every sub-query and not the union
build_union_query_ordering_inside(qs, order) ==
    Join([ i \in 1..Len(qs) |->
             << "(" >> \o qs[i]
             \o (IF Truthy(order) THEN << " " >> \o Val(order) ELSE << >>)
             \o << ")" >> ],
         << " ", "UNION", " ", "ALL", " " >>)

\* QueryBuilder.build_union_query(queries, order_by_clause)
build_union_query(qs, order) ==
    LET union_query ==
            Join([ i \in 1..Len(qs) |-> << "(" >> \o qs[i] \o << ")" >> ],
                 << " ", "UNION", " ", "ALL", " " >>)
    IN  IF Truthy(order)
        THEN << "SELECT", " ", "*", " ", "FROM", " ", "(" >> \o union_query
             \o << ")", " " >> \o Val(order)
        ELSE union_query

\* query1 and query2 of TableComparator.get_sample_differences
sample_queries(t1, t2, cols, where, order, limit) ==
    << build_except_distinct_query(t1, t2, cols, where, order, Some(limit),
                                   None),
       build_except_distinct_query(t2, t1, cols, where, order, Some(limit),
                                   None) >>

\* add_source_column=f"exclusive_to_{table_name}"
source_column(table_name) ==
    << "e", "x", "c", "l", "u", "s", "i", "v", "e", "_", "t", "o", "_" >> \o table_name

\* combined_query of TableComparator.export_all_differences
export_query(t1, t2, table1_name, table2_name, cols, where, order) ==
    LET query1 == build_except_distinct_query(
                      t1, t2, cols, where, None, None,
                      Some(source_column(table1_name)))
        query2 == build_except_distinct_query(
                      t2, t1, cols, where, None, None,
                      Some(source_column(table2_name)))
    IN  build_union_query(<< query1, query2 >>, order)

\* the query text of TableComparator.get_table_schema
schema_query(project, dataset, table_name) ==
    << "\n", " ", " ", " ", " ", " ", " ", " ", " ", "SELECT", " ",
       "column_name,", " ", "data_type", " ", "\n", " ", " ", " ", " ",
       " ", " ", " ", " ", "FROM", " ", "`" >>
    \o project
    \o << "." >>
    \o dataset
    \o << ".INFORMATION_SCHEMA.COLUMNS`", " ", "\n", " ", " ", " ", " ",
          " ", " ", " ", " ", "WHERE", " ", "table_name", " ", "=", " ",
          "'" >>
    \o table_name
    \o << "'", " ", "\n", " ", " ", " ", " ", " ", " ", " ", " ", "ORDER",
          " ", "BY", " ", "ordinal_position", "\n", " ", " ", " ", " ",
          " ", " ", " ", " " >>

\* the query text of TableComparator.check_data_differences
exists_query(t1, t2, cols, where) ==
    << "\n", " ", " ", " ", " ", " ", " ", " ", " ", "SELECT", " ", "\n",
       " ", " ", " ", " ", " ", " ", " ", " ", " ", " ", "CASE", " ", "\n",
       " ", " ", " ", " ", " ", " ", " ", " ", " ", " ", " ", " ", "WHEN",
       " ", "EXISTS", " ", "(", "\n", " ", " ", " ", " ", " ", " ", " ",
       " ", " ", " ", " ", " ", " ", " ", "SELECT", " " >>
    \o cols
    \o << " ", "FROM", " " >>
    \o t1
    \o where_part(where)
    \o << "\n", " ", " ", " ", " ", " ", " ", " ", " ", " ", " ", " ", " ",
          " ", " ", "EXCEPT", " ", "DISTINCT", "\n", " ", " ", " ", " ",
          " ", " ", " ", " ", " ", " ", " ", " ", " ", " ", "SELECT", " " >>
    \o cols
    \o << " ", "FROM", " " >>
    \o t2
    \o where_part(where)
    \o << "\n", " ", " ", " ", " ", " ", " ", " ", " ", " ", " ", " ", " ",
          ")", " ", "OR", " ", "EXISTS", " ", "(", "\n", " ", " ", " ",
          " ", " ", " ", " ", " ", " ", " ", " ", " ", " ", " ", "SELECT",
          " " >>
    \o cols
    \o << " ", "FROM", " " >>
    \o t2
    \o where_part(where)
    \o << "\n", " ", " ", " ", " ", " ", " ", " ", " ", " ", " ", " ", " ",
          " ", " ", "EXCEPT", " ", "DISTINCT", "\n", " ", " ", " ", " ",
          " ", " ", " ", " ", " ", " ", " ", " ", " ", " ", "SELECT", " " >>
    \o cols
    \o << " ", "FROM", " " >>
    \o t1
    \o where_part(where)
    \o << "\n", " ", " ", " ", " ", " ", " ", " ", " ", " ", " ", " ", " ",
          ")", " ", "THEN", " ", "TRUE", "\n", " ", " ", " ", " ", " ",
          " ", " ", " ", " ", " ", " ", " ", "ELSE", " ", "FALSE", "\n",
          " ", " ", " ", " ", " ", " ", " ", " ", " ", " ", "END", " ",
          "as", " ", "has_differences", "\n", " ", " ", " ", " ", " ", " ",
          " ", " " >>

(***************************************************************************)
(* main: parse_table_path                                                  *)
(***************************************************************************)
\* parse_table_path with "len(parts) < 3" for its test
parse_table_path_at_least_three(table_path) ==
    LET parts == Split(table_path, ".")
    IN  IF Len(parts) < 3
        THEN [ ok |-> FALSE, parts |-> << >> ]
        ELSE [ ok |-> TRUE, parts |-> << parts[1], parts[2], parts[3] >> ]

\* parts = table_path.split("."); ValueError unless len(parts) == 3
parse_table_path(table_path) ==
    LET parts == Split(table_path, ".")
    IN  IF Len(parts) # 3
        THEN [ ok |-> FALSE, parts |-> << >> ]
        ELSE [ ok |-> TRUE, parts |-> << parts[1], parts[2], parts[3] >> ]

(***************************************************************************)
(* TableComparator.analyze_schemas                                         *)
(***************************************************************************)
\* specified_cols = [col.strip() for col in specific_columns.split(",")]
specified_cols(specific) ==
    LET raw == Split(Val(specific), ",")
    IN  [ i \in DOMAIN raw |-> ToStr(Strip(raw[i])) ]

SeqRange(s) == { s[i] : i \in DOMAIN s }

\* the common_columns set analyze_schemas computes
common_columns_of(s1, s2, specific) ==
    IF Truthy(specific)
    THEN (SeqRange(specified_cols(specific)) \cap ColumnSet(s1)) \cap ColumnSet(s2)
    ELSE ColumnSet(s1) \cap ColumnSet(s2)

\* analyze_schemas with only the names absent from both schemas reported
\* as missing
analyze_schemas_missing_from_both(s1, s2, specific, order) ==
    LET schema1_columns == ColumnSet(s1)
        schema2_columns == ColumnSet(s2)
        common_columns == common_columns_of(s1, s2, specific)
        missing_cols ==
            IF Truthy(specific)
            THEN (SeqRange(specified_cols(specific)) \ schema1_columns)
                     \ schema2_columns
            ELSE {}
        schema1_dict == SchemaDict(s1)
        schema2_dict == SchemaDict(s2)
        differing ==
            SelectSeq(order,
                      LAMBDA col : /\ col \in DOMAIN schema1_dict
                                   /\ col \in DOMAIN schema2_dict
                                   /\ schema1_dict[col] # schema2_dict[col])
        schema_mismatches ==
            [ i \in DOMAIN differing |->
                << differing[i], schema1_dict[differing[i]],
                   schema2_dict[differing[i]] >> ]
    IN  [ common_columns |-> common_columns,
          only_in_table1 |-> schema1_columns \ schema2_columns,
          only_in_table2 |-> schema2_columns \ schema1_columns,
          schema_mismatches |-> schema_mismatches,
          missing_specified_cols |-> missing_cols,
          schemas_identical |-> /\ Len(s1) = Len(s2)
                                /\ schema_mismatches = << >>
                                /\ ~Truthy(specific) ]

\* analyze_schemas with the flag computed without "and not specific_columns"
analyze_schemas_flag_ignores_subset(s1, s2, specific, order) ==
    LET schema1_columns == ColumnSet(s1)
        schema2_columns == ColumnSet(s2)
        common_columns == common_columns_of(s1, s2, specific)
        missing_cols ==
            IF Truthy(specific)
            THEN SeqRange(specified_cols(specific)) \ common_columns
            ELSE {}
        schema1_dict == SchemaDict(s1)
        schema2_dict == SchemaDict(s2)
        differing ==
            SelectSeq(order,
                      LAMBDA col : /\ col \in DOMAIN schema1_dict
                                   /\ col \in DOMAIN schema2_dict
                                   /\ schema1_dict[col] # schema2_dict[col])
        schema_mismatches ==
            [ i \in DOMAIN differing |->
                << differing[i], schema1_dict[differing[i]],
                   schema2_dict[differing[i]] >> ]
    IN  [ common_columns |-> common_columns,
          only_in_table1 |-> schema1_columns \ schema2_columns,
          only_in_table2 |-> schema2_columns \ schema1_columns,
          schema_mismatches |-> schema_mismatches,
          missing_specified_cols |-> missing_cols,
          schemas_identical |-> /\ Len(s1) = Len(s2)
                                /\ schema_mismatches = << >> ]

\* analyze_schemas with only_in_table2 computed like only_in_table1
analyze_schemas_same_difference(s1, s2, specific, order) ==
    LET schema1_columns == ColumnSet(s1)
        schema2_columns == ColumnSet(s2)
        common_columns == common_columns_of(s1, s2, specific)
        missing_cols ==
            IF Truthy(specific)
            THEN SeqRange(specified_cols(specific)) \ common_columns
            ELSE {}
        schema1_dict == SchemaDict(s1)
        schema2_dict == SchemaDict(s2)
        differing ==
            SelectSeq(order,
                      LAMBDA col : /\ col \in DOMAIN schema1_dict
                                   /\ col \in DOMAIN schema2_dict
                                   /\ schema1_dict[col] # schema2_dict[col])
        schema_mismatches ==
            [ i \in DOMAIN differing |->
                << differing[i], schema1_dict[differing[i]],
                   schema2_dict[differing[i]] >> ]
    IN  [ common_columns |-> common_columns,
          only_in_table1 |-> schema1_columns \ schema2_columns,
          only_in_table2 |-> schema1_columns \ schema2_columns,
          schema_mismatches |-> schema_mismatches,
          missing_specified_cols |-> missing_cols,
          schemas_identical |-> /\ Len(s1) = Len(s2)
                                /\ schema_mismatches = << >>
                                /\ ~Truthy(specific) ]

\* order: the order in which "for col in common_columns" visits the set
analyze_schemas(s1, s2, specific, order) ==
    LET schema1_columns == ColumnSet(s1)
        schema2_columns == ColumnSet(s2)
        common_columns == common_columns_of(s1, s2, specific)
        missing_cols ==
            IF Truthy(specific)
            THEN SeqRange(specified_cols(specific)) \ common_columns
            ELSE {}
        schema1_dict == SchemaDict(s1)
        schema2_dict == SchemaDict(s2)
        differing ==
            SelectSeq(order,
                      LAMBDA col : /\ col \in DOMAIN schema1_dict
                                   /\ col \in DOMAIN schema2_dict
                                   /\ schema1_dict[col] # schema2_dict[col])
        schema_mismatches ==
            [ i \in DOMAIN differing |->
                << differing[i], schema1_dict[differing[i]],
                   schema2_dict[differing[i]] >> ]
    IN  [ common_columns |-> common_columns,
          only_in_table1 |-> schema1_columns \ schema2_columns,
          only_in_table2 |-> schema2_columns \ schema1_columns,
          schema_mismatches |-> schema_mismatches,
          missing_specified_cols |-> missing_cols,
          schemas_identical |-> /\ Len(s1) = Len(s2)
                                /\ schema_mismatches = << >>
                                /\ ~Truthy(specific) ]

(***************************************************************************)
(* Queries                                                                 *)
(***************************************************************************)
Steps == << "schema1", "schema2", "count1", "count2", "exists",
            "sample1", "sample2", "export" >>

StepSet == SeqRange(Steps)

\* NextPc with the second row count left out
NextPcWithoutCount2(step) ==
    CASE step = "schema1" -> "schema2"
      [] step = "schema2" -> "analyze"
      [] step = "count1"  -> "exists"
      [] step = "count2"  -> "exists"
      [] step = "sample1" -> "sample2"
      [] step = "sample2" -> "export"

\* NextPc with the second sample query left out
NextPcOneSample(step) ==
    CASE step = "schema1" -> "schema2"
      [] step = "schema2" -> "analyze"
      [] step = "count1"  -> "count2"
      [] step = "count2"  -> "exists"
      [] step = "sample1" -> "export"
      [] step = "sample2" -> "export"

\* the step that follows a query step when its query returns
NextPc(step) ==
    CASE step = "schema1" -> "schema2"
      [] step = "schema2" -> "analyze"
      [] step = "count1"  -> "count2"
      [] step = "count2"  -> "exists"
      [] step = "sample1" -> "sample2"
      [] step = "sample2" -> "export"

table1_full == ToStr(table1)
table2_full == ToStr(table2)

\* add_source_column=f"exclusive_to_{table_name}"
SourceLabel(table_name) == "exclusive_to_" \o ToStr(table_name)

\* What each step asks the engine: the relation read (frm), the relation
\* subtracted or the second relation (other), the provenance labels, and
\* the text of the query.
QueryFor(step) ==
    CASE step = "schema1" ->
           [ step |-> step, frm |-> ToStr(parts1[1]) \o "." \o ToStr(parts1[2]),
             other |-> ToStr(parts1[3]), labels |-> << >>,
             text |-> schema_query(parts1[1], parts1[2], parts1[3]) ]
      [] step = "schema2" ->
           [ step |-> step, frm |-> ToStr(parts2[1]) \o "." \o ToStr(parts2[2]),
             other |-> ToStr(parts2[3]), labels |-> << >>,
             text |-> schema_query(parts2[1], parts2[2], parts2[3]) ]
      [] step = "count1" ->
           [ step |-> step, frm |-> table1_full, other |-> "", labels |-> << >>,
             text |-> build_row_count_query(table1, where_clause) ]
      [] step = "count2" ->
           [ step |-> step, frm |-> table2_full, other |-> "", labels |-> << >>,
             text |-> build_row_count_query(table2, where_clause) ]
      [] step = "exists" ->
           [ step |-> step, frm |-> table1_full, other |-> table2_full,
             labels |-> << >>,
             text |-> exists_query(table1, table2, columns, where_clause) ]
      [] step = "sample1" ->
           [ step |-> step, frm |-> table1_full, other |-> table2_full,
             labels |-> << >>,
             text |-> sample_queries(table1, table2, columns, where_clause,
                                     order_by_clause, SampleLimit)[1] ]
      [] step = "sample2" ->
           [ step |-> step, frm |-> table2_full, other |-> table1_full,
             labels |-> << >>,
             text |-> sample_queries(table1, table2, columns, where_clause,
                                     order_by_clause, SampleLimit)[2] ]
      [] step = "export" ->
           [ step |-> step, frm |-> table1_full, other |-> table2_full,
             labels |-> << SourceLabel(parts1[3]), SourceLabel(parts2[3]) >>,
             text |-> export_query(table1, table2, parts1[3], parts2[3],
                                   columns, where_clause, order_by_clause) ]

(***************************************************************************)
(* The run: main, then execute_comparison                                  *)
(***************************************************************************)
\* execute_comparison has not been entered
LocalsUnset == where_clause = None /\ order_by_clause = None /\ columns = << >>

\* no QueryBuilder function is called alone
NoCall == fn_in = << >> /\ fn_out = << >>

TypeOK ==
    /\ pc \in StepSet \cup {"main", "analyze", "done", "fn", "fn_done", "fn_again"}
    /\ table1 \in TablePaths /\ table2 \in TablePaths
    /\ specific_columns \in SpecificInputs \cup SubsetInputs
    /\ client_created \in BOOLEAN /\ exec_called \in BOOLEAN
    /\ pending \subseteq StepSet /\ Cardinality(pending) <= 1
    /\ count1 \subseteq 0..MaxCount /\ count2 \subseteq 0..MaxCount
    /\ has_differences \subseteq BOOLEAN
    /\ exit_status \subseteq {0, 1}

Init ==
    /\ pc = "main"
    /\ table1 \in TablePaths
    /\ table2 \in TablePaths
    /\ specific_columns \in SpecificInputs
    /\ args_where_clause = None
    /\ args_order_by_clause = None
    /\ LocalsUnset
    /\ NoCall
    /\ parts1 = << >>
    /\ parts2 = << >>
    /\ client_created = FALSE
    /\ exec_called = FALSE
    /\ pending = None
    /\ queries = << >>
    /\ calls = << >>
    /\ schema1 = << >>
    /\ schema2 = << >>
    /\ schema_analysis = None
    /\ count1 = None
    /\ count2 = None
    /\ has_differences = None
    /\ stdout = << >>
    /\ sink_writes = << >>
    /\ sink_file = None
    /\ exit_status = None

results == << schema1, schema2, schema_analysis, count1, count2, has_differences >>
inputs == << table1, table2, specific_columns, args_where_clause,
            args_order_by_clause >>
locals == << where_clause, order_by_clause, columns >>
fnVars == << fn_in, fn_out >>

\* main up to the call of execute_comparison: both paths are parsed inside
\* one try; a ValueError is printed and the process exits 1, else the
\* client is created and execute_comparison entered.
Main ==
    /\ pc = "main"
    /\ LET r1 == parse_table_path(table1)
           r2 == parse_table_path(table2)
       IN  IF r1.ok /\ r2.ok
           THEN /\ parts1' = r1.parts
                /\ parts2' = r2.parts
                /\ client_created' = TRUE
                /\ exec_called' = TRUE
                /\ where_clause' = normalize_where_clause(args_where_clause)
                /\ order_by_clause' =
                       normalize_order_by_clause(args_order_by_clause)
                /\ pc' = "schema1"
                /\ UNCHANGED << stdout, exit_status >>
           ELSE /\ stdout' = Append(stdout, "Error: table path")
                /\ exit_status' = Some(1)
                /\ pc' = "done"
                /\ UNCHANGED << parts1, parts2, client_created, exec_called,
                                where_clause, order_by_clause >>
    /\ UNCHANGED << inputs, columns, fnVars, results, pending, queries, calls,
                    sink_writes, sink_file >>

\* client.query(query): the query is handed to the engine and the process
\* blocks in .result() until the engine answers
Issue(step) ==
    /\ pc = step
    /\ pending = None
    /\ pending' = Some(step)
    /\ queries' = Append(queries, QueryFor(step))
    /\ calls' = Append(calls, << "issue", step >>)
    /\ UNCHANGED << pc, inputs, locals, fnVars, results, parts1, parts2, client_created,
                    exec_called, stdout, sink_writes, sink_file, exit_status >>

\* Raise with the failed query tried again instead of the exit
RaiseAndRetry(step) ==
    /\ pending = Some(step)
    /\ pending' = None
    /\ calls' = Append(calls, << "raise", step >>)
    /\ stdout' = Append(stdout, "Error executing comparison")
    /\ UNCHANGED << pc, exit_status, inputs, locals, fnVars, results, parts1, parts2,
                    client_created, exec_called, queries, sink_writes, sink_file >>

\* Raise with the error printed and the process ending with status 0
RaiseAndExitZero(step) ==
    /\ pending = Some(step)
    /\ pending' = None
    /\ calls' = Append(calls, << "raise", step >>)
    /\ stdout' = Append(stdout, "Error executing comparison")
    /\ exit_status' = Some(0)
    /\ pc' = "done"
    /\ UNCHANGED << inputs, locals, fnVars, results, parts1, parts2, client_created,
                    exec_called, queries, sink_writes, sink_file >>

\* The engine raises: "except Exception" prints the error and sys.exit(1)
Raise(step) ==
    /\ pending = Some(step)
    /\ pending' = None
    /\ calls' = Append(calls, << "raise", step >>)
    /\ stdout' = Append(stdout, "Error executing comparison")
    /\ exit_status' = Some(1)
    /\ pc' = "done"
    /\ UNCHANGED << inputs, locals, fnVars, results, parts1, parts2, client_created,
                    exec_called, queries, sink_writes, sink_file >>

\* get_table_schema returns the rows of the INFORMATION_SCHEMA query; a
\* relation the catalog does not know yields no rows
ReturnSchema(step, s) ==
    /\ step \in {"schema1", "schema2"}
    /\ pending = Some(step)
    /\ pending' = None
    /\ calls' = Append(calls, << "return", step >>)
    /\ IF step = "schema1"
       THEN schema1' = s /\ UNCHANGED schema2
       ELSE schema2' = s /\ UNCHANGED schema1
    /\ pc' = NextPc(step)
    /\ UNCHANGED << inputs, locals, fnVars, parts1, parts2, client_created, exec_called,
                    queries, schema_analysis, count1, count2, has_differences,
                    stdout, sink_writes, sink_file, exit_status >>

\* NoCommonColumns that stops only when no requested column is missing
NoCommonColumnsUnlessMissing(analysis) ==
    analysis.common_columns = {} /\ analysis.missing_specified_cols = {}

\* "if not schema_analysis['common_columns']": the one hard stop
NoCommonColumns(analysis) == analysis.common_columns = {}

\* what execute_comparison prints about the reconciled schemas
AnalysisReport(analysis) ==
    (IF analysis.only_in_table1 # {} THEN << "Columns only in Table 1" >> ELSE << >>)
    \o (IF analysis.only_in_table2 # {} THEN << "Columns only in Table 2" >> ELSE << >>)
    \o (IF analysis.missing_specified_cols # {}
        THEN << "Warning: specified columns not found" >> ELSE << >>)
    \o (IF NoCommonColumns(analysis)
        THEN << "ERROR: No common columns" >>
        ELSE << "Common columns" >>
             \o (IF analysis.schema_mismatches # << >>
                 THEN << "Schema mismatches" >> ELSE << >>))

\* analyze_schemas and the report of its result; with no common column
\* execute_comparison returns, and the process ends with status 0
AnalyzeSchemas ==
    /\ pc = "analyze"
    /\ \E order \in Orders(common_columns_of(schema1, schema2, specific_columns)) :
         LET analysis == analyze_schemas(schema1, schema2, specific_columns, order)
         IN  /\ schema_analysis' = Some(analysis)
             /\ stdout' = stdout \o AnalysisReport(analysis)
             /\ IF NoCommonColumns(analysis)
                THEN pc' = "done" /\ exit_status' = Some(0)
                ELSE pc' = "count1" /\ UNCHANGED exit_status
    /\ calls' = Append(calls, << "analyze", "schemas" >>)
    /\ UNCHANGED << inputs, locals, fnVars, parts1, parts2, client_created, exec_called,
                    pending, queries, schema1, schema2, count1, count2,
                    has_differences, sink_writes, sink_file >>

\* abs(c1 - c2)
Abs(n) == IF n < 0 THEN 0 - n ELSE n

\* print(f"Difference: {abs(count1 - count2):,} rows"), below a thousand
DifferenceLine(c1, c2) ==
    "Difference: " \o ToStr(Decimal(Abs(c1 - c2))) \o " rows"

\* the characters of a column name of the model, which has one character
NameChars(col) == << col >>

\* get_row_count returns next(result).count; after the second count the
\* difference is printed and the projection is built
ReturnCount(step, n) ==
    /\ step \in {"count1", "count2"}
    /\ pending = Some(step)
    /\ pending' = None
    /\ calls' = Append(calls, << "return", step >>)
    /\ IF step = "count1"
       THEN count1' = Some(n) /\ UNCHANGED << count2, stdout, columns >>
       ELSE /\ count2' = Some(n)
            /\ stdout' = stdout \o << "Row counts",
                                      DifferenceLine(Val(count1), n) >>
            /\ \E order \in Orders(Val(schema_analysis).common_columns) :
                   columns' = build_column_list(
                                  specific_columns,
                                  Some([ i \in DOMAIN order |->
                                           NameChars(order[i]) ]))
            /\ UNCHANGED count1
    /\ pc' = NextPc(step)
    /\ UNCHANGED << inputs, where_clause, order_by_clause, fnVars, parts1,
                    parts2, client_created, exec_called,
                    queries, schema1, schema2, schema_analysis,
                    has_differences, sink_writes, sink_file, exit_status >>

\* Verdict that passes on equal row counts without looking at the check
VerdictByRowCount(h) ==
    IF count1 = count2 \/ ~h THEN "Test Result: PASS" ELSE "Test Result: FAIL"

\* "if not has_differences: PASS else: FAIL"
Verdict(h) == IF ~h THEN "Test Result: PASS" ELSE "Test Result: FAIL"

\* DetailBranch that runs the detailed analysis whatever the check said
DetailBranchAlways(h) == "sample1"

\* the detailed difference analysis is the else branch of the same test
DetailBranch(h) == IF ~h THEN "done" ELSE "sample1"

\* check_data_differences returns next(result).has_differences
ReturnExists(h) ==
    /\ pending = Some("exists")
    /\ pending' = None
    /\ calls' = Append(calls, << "return", "exists" >>)
    /\ has_differences' = Some(h)
    /\ stdout' = Append(stdout, Verdict(h))
    /\ pc' = DetailBranch(h)
    /\ exit_status' = IF DetailBranch(h) = "done" THEN Some(0) ELSE exit_status
    /\ UNCHANGED << inputs, locals, fnVars, parts1, parts2, client_created, exec_called,
                    queries, schema1, schema2, schema_analysis, count1, count2,
                    sink_writes, sink_file >>

\* get_sample_differences: each of its two queries is awaited in turn
ReturnSample(step) ==
    /\ step \in {"sample1", "sample2"}
    /\ pending = Some(step)
    /\ pending' = None
    /\ calls' = Append(calls, << "return", step >>)
    /\ stdout' = IF step = "sample2" THEN Append(stdout, "Sample rows") ELSE stdout
    /\ pc' = NextPc(step)
    /\ UNCHANGED << inputs, locals, fnVars, results, parts1, parts2, client_created,
                    exec_called, queries, sink_writes, sink_file, exit_status >>

\* the end of print(f"   All differences written to ... ({total_diffs} rows)")
ExportLine(total_diffs) == "(" \o ToStr(Decimal(total_diffs)) \o " rows)"

\* HasRows that is true of the empty result as well
HasRowsAlways(n) == TRUE

\* "if rows:", for a result of n rows
HasRows(n) == n > 0

\* export_all_differences: "if rows:" the file is written; len(rows) is
\* returned and printed, and execute_comparison returns
ReturnExport(n) ==
    /\ pending = Some("export")
    /\ pending' = None
    /\ calls' = Append(calls, << "return", "export" >>)
    /\ sink_writes' = IF HasRows(n) THEN Append(sink_writes, n)
                      ELSE sink_writes
    /\ sink_file' = IF HasRows(n) THEN Some([ run |-> "this", rows |-> n ])
                    ELSE sink_file
    /\ stdout' = stdout \o << "All differences written", ExportLine(n) >>
    /\ pc' = "done"
    /\ exit_status' = Some(0)
    /\ UNCHANGED << inputs, locals, fnVars, results, parts1, parts2, client_created,
                    exec_called, queries >>

Next ==
    \/ Main
    \/ \E step \in StepSet : Issue(step)
    \/ \E step \in StepSet : Raise(step)
    \/ \E step \in {"schema1", "schema2"} :
         \E s \in RunSchemas : ReturnSchema(step, s)
    \/ AnalyzeSchemas
    \/ \E step \in {"count1", "count2"} :
         \E n \in 0..MaxCount : ReturnCount(step, n)
    \/ \E h \in BOOLEAN : ReturnExists(h)
    \/ \E step \in {"sample1", "sample2"} : ReturnSample(step)
    \/ \E n \in 0..MaxRows : ReturnExport(n)

Spec == Init /\ [][Next]_vars

(***************************************************************************)
(* analyze_schemas taken alone, over all pairs of schemas                  *)
(***************************************************************************)
AllSchemas == SchemasOver(AllCols, AllTypes)

InitSchema ==
    /\ pc = "fn"
    /\ table1 = << "p", ".", "d", ".", "t" >>
    /\ table2 = << "q", ".", "d", ".", "t" >>
    /\ specific_columns \in SpecificInputs
    /\ args_where_clause = None
    /\ args_order_by_clause = None
    /\ LocalsUnset
    /\ NoCall
    /\ parts1 = << >>
    /\ parts2 = << >>
    /\ client_created = FALSE
    /\ exec_called = FALSE
    /\ pending = None
    /\ queries = << >>
    /\ calls = << >>
    /\ schema1 \in AllSchemas
    /\ schema2 \in AllSchemas
    /\ schema_analysis = None
    /\ count1 = None
    /\ count2 = None
    /\ has_differences = None
    /\ stdout = << >>
    /\ sink_writes = << >>
    /\ sink_file = None
    /\ exit_status = None

CallAnalyzeSchemas ==
    /\ pc = "fn"
    /\ \E order \in Orders(common_columns_of(schema1, schema2, specific_columns)) :
         schema_analysis' =
             Some(analyze_schemas(schema1, schema2, specific_columns, order))
    /\ pc' = "fn_done"
    /\ UNCHANGED << inputs, locals, fnVars, parts1, parts2, client_created, exec_called,
                    pending, queries, calls, schema1, schema2, count1, count2,
                    has_differences, stdout, sink_writes, sink_file, exit_status >>

NextSchema == CallAnalyzeSchemas

SpecSchema == InitSchema /\ [][NextSchema]_vars

(***************************************************************************)
(* analyze_schemas taken alone, over the requested subsets                 *)
(***************************************************************************)
InitSubset ==
    /\ pc = "fn"
    /\ table1 = << "p", ".", "d", ".", "t" >>
    /\ table2 = << "q", ".", "d", ".", "t" >>
    /\ specific_columns \in SubsetInputs
    /\ args_where_clause = None
    /\ args_order_by_clause = None
    /\ LocalsUnset
    /\ NoCall
    /\ parts1 = << >>
    /\ parts2 = << >>
    /\ client_created = FALSE
    /\ exec_called = FALSE
    /\ pending = None
    /\ queries = << >>
    /\ calls = << >>
    /\ schema1 \in RunSchemas
    /\ schema2 \in RunSchemas
    /\ schema_analysis = None
    /\ count1 = None
    /\ count2 = None
    /\ has_differences = None
    /\ stdout = << >>
    /\ sink_writes = << >>
    /\ sink_file = None
    /\ exit_status = None

SpecSubset == InitSubset /\ [][NextSchema]_vars

(***************************************************************************)
(* Properties                                                              *)
(***************************************************************************)
Issued(step) == \E i \in DOMAIN queries : queries[i].step = step
Returned(step) == << "return", step >> \in SeqRange(calls)
Raised(step) == << "raise", step >> \in SeqRange(calls)
Reported(line) == line \in SeqRange(stdout)
TimesIssued(step) == Cardinality({ i \in DOMAIN queries : queries[i].step = step })

\* number of "." separators of a path: it has Dots + 1 segments
Dots(path) == Cardinality({ i \in DOMAIN path : path[i] = "." })

\* a path of three non-empty segments
WellFormed(path) ==
    /\ Dots(path) = 2
    /\ path[1] # "." /\ path[Len(path)] # "."
    /\ \A i \in 1..(Len(path) - 1) : ~(path[i] = "." /\ path[i + 1] = ".")

\* both relations of the run are named by well-formed paths
WellFormedRun == WellFormed(table1) /\ WellFormed(table2)

\* C1: once the existence check has returned, the reported verdict is FAIL
\* exactly when it returned true and PASS exactly when it returned false,
\* whatever the two row counts and the schema mismatches are; no verdict is
\* reported before the check, and a run whose second row count has
\* returned goes on to the existence check whether or not the counts agree.
C1_VerdictIsTheExistenceCheck ==
    /\ has_differences # None =>
         /\ Reported("Test Result: FAIL") <=> (Val(has_differences) = TRUE)
         /\ Reported("Test Result: PASS") <=> (Val(has_differences) = FALSE)
    /\ has_differences = None =>
         ~Reported("Test Result: FAIL") /\ ~Reported("Test Result: PASS")
    /\ count2 # None => Issued("exists") \/ (pc = "exists" /\ pending = None)

\* C1 witness: identical schemas, equal row counts, the check true, FAIL
C1_Witness ==
    /\ WellFormedRun
    /\ has_differences = Some(TRUE)
    /\ count1 = count2
    /\ schema1 = schema2 /\ schema1 # << >>
    /\ Val(schema_analysis).schemas_identical
    /\ Reported("Test Result: FAIL")

\* C2 as stated: in a finished run (of two well-formed paths) the two sample
\* queries and the export query have all been issued if and only if the
\* existence check returned true.
C2_SamplesAndExportIffDifferences ==
    (pc = "done" /\ WellFormedRun /\ table1 # table2) =>
        ((Issued("sample1") /\ Issued("sample2") /\ Issued("export"))
            <=> has_differences = Some(TRUE))

\* C2 amended: a sample query, the export query or a write of the sink
\* happens only after the existence check returned true; when it returned
\* true the first sample query is the next thing issued, and a run that no
\* raising query cut short has issued both sample queries and the export.
C2_DetailOnlyAndAlwaysOnDifferences ==
    /\ (Issued("sample1") \/ Issued("sample2") \/ Issued("export")
            \/ sink_writes # << >>)
         => has_differences = Some(TRUE)
    /\ has_differences = Some(TRUE) =>
         Issued("sample1") \/ (pc = "sample1" /\ pending = None)
    /\ (has_differences = Some(TRUE) /\ pc = "done" /\ exit_status = Some(0)) =>
         Issued("sample1") /\ Issued("sample2") /\ Issued("export")
    /\ has_differences = Some(FALSE) =>
         /\ ~Issued("sample1") /\ ~Issued("sample2") /\ ~Issued("export")
         /\ sink_writes = << >>

\* C2 witness: the check returned true and the run went through both
\* samples and the export, which wrote the sink
C2_Witness ==
    /\ WellFormedRun
    /\ has_differences = Some(TRUE)
    /\ pc = "done" /\ exit_status = Some(0)
    /\ Issued("sample1") /\ Issued("sample2") /\ Issued("export")
    /\ sink_writes # << >>

\* C3: once reconciliation has found no common column the run is over: no
\* row-count, existence, sample or export query is ever issued, the
\* no-common-columns state is reported, neither PASS nor FAIL is, and the
\* process ends with status 0 and without the error report.
C3_NoCommonColumnsStopsTheRun ==
    (schema_analysis # None /\ Val(schema_analysis).common_columns = {}) =>
        /\ pc = "done"
        /\ exit_status = Some(0)
        /\ Reported("ERROR: No common columns")
        /\ ~Reported("Test Result: PASS") /\ ~Reported("Test Result: FAIL")
        /\ ~Reported("Error executing comparison")
        /\ \A i \in DOMAIN queries : queries[i].step \in {"schema1", "schema2"}
        /\ sink_writes = << >>

\* C3 witness: two non-empty schemas, a requested subset, nothing in common
C3_Witness ==
    /\ WellFormedRun
    /\ schema_analysis # None
    /\ Val(schema_analysis).common_columns = {}
    /\ Val(schema_analysis).missing_specified_cols # {}
    /\ schema1 # << >> /\ schema2 # << >>
    /\ pc = "done"

\* C4: a run (of two well-formed paths) in which a schema query returned no
\* columns ends with a non-zero exit status and does not report the
\* no-common-columns outcome.
C4_SchemaAbsenceIsFatal ==
    (/\ pc = "done"
     /\ WellFormedRun /\ table1 # table2
     /\ \/ Returned("schema1") /\ schema1 = << >>
        \/ Returned("schema2") /\ schema2 = << >>) =>
        /\ exit_status = Some(1)
        /\ ~Reported("ERROR: No common columns")

\* C5: when either path does not have exactly three dot-separated segments,
\* main reports the error and exits with status 1; the client is never
\* created, execute_comparison never called and no query issued.
C5_MalformedPathIsRejected ==
    (pc # "main" /\ (Dots(table1) # 2 \/ Dots(table2) # 2)) =>
        /\ pc = "done"
        /\ exit_status = Some(1)
        /\ Reported("Error: table path")
        /\ ~client_created
        /\ ~exec_called
        /\ queries = << >>
        /\ calls = << >>

\* C5 witness: the first path is well formed, the second has four segments
C5_Witness ==
    /\ pc = "done"
    /\ Dots(table1) = 2 /\ Dots(table2) = 3
    /\ exit_status = Some(1)

\* C6: every path the run proceeds with decomposes into three non-empty
\* segments.
C6_AcceptedPathsHaveNoEmptySegment ==
    exec_called =>
        /\ Len(parts1) = 3 /\ Len(parts2) = 3
        /\ \A i \in 1..3 : parts1[i] # << >> /\ parts2[i] # << >>

\* C7: once a query has raised, the run is over with exit status 1 and the
\* error report; the raise is the last collaborator event, the failed query
\* is the last query issued and was issued once.
C7_CollaboratorErrorEndsTheRun ==
    \A step \in StepSet :
        Raised(step) =>
            /\ pc = "done"
            /\ exit_status = Some(1)
            /\ pending = None
            /\ stdout[Len(stdout)] = "Error executing comparison"
            /\ calls[Len(calls)] = << "raise", step >>
            /\ queries[Len(queries)].step = step
            /\ TimesIssued(step) = 1

\* C7 witness: the second sample query raised
C7_Witness == WellFormedRun /\ Raised("sample2") /\ pc = "done"

\* C8: the export of two different relations labels the rows of the two
\* directions differently.
C8_ProvenanceLabelsDiffer ==
    \A i \in DOMAIN queries :
        (queries[i].step = "export" /\ table1 # table2) =>
            queries[i].labels[1] # queries[i].labels[2]

\* the collaborator events of a full run, in the required order
CallOrder ==
    << << "issue", "schema1" >>, << "return", "schema1" >>,
       << "issue", "schema2" >>, << "return", "schema2" >>,
       << "analyze", "schemas" >>,
       << "issue", "count1" >>, << "return", "count1" >>,
       << "issue", "count2" >>, << "return", "count2" >>,
       << "issue", "exists" >>, << "return", "exists" >>,
       << "issue", "sample1" >>, << "return", "sample1" >>,
       << "issue", "sample2" >>, << "return", "sample2" >>,
       << "issue", "export" >>, << "return", "export" >> >>

\* C9: the history of a run is a prefix of the required order (schema 1,
\* schema 2, reconciliation, count 1, count 2, existence check, sample 1,
\* sample 2, export), every query being answered before the next event,
\* except that the last answer may be a raise; the queries issued are the
\* issue events of that history, and a query is outstanding exactly when
\* the last event is its issue.
C9_CallsInOrderEachAwaited ==
    /\ Len(calls) <= Len(CallOrder)
    /\ \A i \in DOMAIN calls :
         \/ calls[i] = CallOrder[i]
         \/ /\ i = Len(calls)
            /\ CallOrder[i][1] = "return"
            /\ calls[i] = << "raise", CallOrder[i][2] >>
    /\ LET issues == SelectSeq(calls, LAMBDA c : c[1] = "issue")
       IN  /\ Len(queries) = Len(issues)
           /\ \A i \in DOMAIN queries : queries[i].step = issues[i][2]
    /\ \A step \in StepSet :
         pending = Some(step) <=>
             (calls # << >> /\ calls[Len(calls)] = << "issue", step >>)

\* C9 witness: a run that went through every step
C9_Witness == WellFormedRun /\ calls = CallOrder

\* declared type of a column, by its position in the schema
TypeAt(schema, name) ==
    schema[CHOOSE i \in DOMAIN schema : schema[i][1] = name][2]

ExampleSchema1 == << << "a", "INT" >>, << "b", "STRING" >> >>
ExampleSchema2 == << << "a", "INT" >>, << "b", "INT" >>, << "c", "BOOL" >> >>

\* C10: with no requested subset, analyze_schemas returns the intersection
\* of the two name sets, the two set differences, and a mismatch list that
\* holds exactly one (name, type1, type2) entry for each common column whose
\* declared types differ and nothing else; the worked example gives {a,b},
\* {}, {c}, [(b,STRING,INT)] and not fully identical.
C10_AnalyzeSchemasNoSubset ==
    (schema_analysis # None /\ specific_columns = None) =>
        LET r == Val(schema_analysis)
            N1 == { schema1[i][1] : i \in DOMAIN schema1 }
            N2 == { schema2[i][1] : i \in DOMAIN schema2 }
            m == r.schema_mismatches
        IN  /\ r.common_columns = { n \in N1 : n \in N2 }
            /\ r.only_in_table1 = { n \in N1 : n \notin N2 }
            /\ r.only_in_table2 = { n \in N2 : n \notin N1 }
            /\ \A n \in N1 \cap N2 :
                 Cardinality({ i \in DOMAIN m : m[i][1] = n })
                    = IF TypeAt(schema1, n) # TypeAt(schema2, n) THEN 1 ELSE 0
            /\ \A i \in DOMAIN m :
                 /\ m[i][1] \in N1 \cap N2
                 /\ m[i] = << m[i][1], TypeAt(schema1, m[i][1]),
                              TypeAt(schema2, m[i][1]) >>
            /\ (schema1 = ExampleSchema1 /\ schema2 = ExampleSchema2) =>
                 /\ r.common_columns = {"a", "b"}
                 /\ r.only_in_table1 = {}
                 /\ r.only_in_table2 = {"c"}
                 /\ m = << << "b", "STRING", "INT" >> >>
                 /\ r.schemas_identical = FALSE

\* C10 witness: the worked example has been analyzed
C10_Witness ==
    /\ schema_analysis # None
    /\ specific_columns = None
    /\ schema1 = ExampleSchema1
    /\ schema2 = ExampleSchema2

\* the names each --specific-columns value of SubsetInputs asks for
RequestedNames(specific) ==
    CASE specific = Some(<<"a">>) -> {"a"}
      [] specific = Some(<<"b">>) -> {"b"}
      [] specific = Some(<<"a", ",", "b">>) -> {"a", "b"}
      [] specific = Some(<<"a", ",", " ", "b">>) -> {"a", "b"}
      [] specific = Some(<<"z">>) -> {"z"}
      [] specific = Some(<<"a", ",", " ", "z">>) -> {"a", "z"}
      [] specific = Some(<<" ", "b", " ", ",", "a">>) -> {"a", "b"}
      [] specific = Some(<<"a", ",", "a">>) -> {"a"}
      [] OTHER -> {}

\* a subset is requested by a non-empty --specific-columns value
SubsetRequested == specific_columns # None /\ specific_columns # Some(<< >>)

\* C11: when a subset is requested, every requested name that one of the
\* schemas (or both) lacks is in missing_specified_cols and not in
\* common_columns, and schemas_identical is false, also when the subset
\* covers every column of both schemas.
C11_MissingRequestedColumns ==
    (schema_analysis # None /\ SubsetRequested) =>
        LET r == Val(schema_analysis)
            N1 == { schema1[i][1] : i \in DOMAIN schema1 }
            N2 == { schema2[i][1] : i \in DOMAIN schema2 }
        IN  /\ \A n \in RequestedNames(specific_columns) :
                 (n \notin N1 \/ n \notin N2) =>
                     /\ n \in r.missing_specified_cols
                     /\ n \notin r.common_columns
            /\ r.schemas_identical = FALSE

\* C11 witness: the subset names every column of both schemas and a name
\* neither has
C11_Witness ==
    /\ schema_analysis # None
    /\ specific_columns = Some(<<"a", ",", " ", "z">>)
    /\ schema1 = << << "a", "INT" >> >>
    /\ schema2 = << << "a", "INT" >> >>
    /\ Val(schema_analysis).missing_specified_cols = {"z"}
    /\ Val(schema_analysis).common_columns = {"a"}

\* C12: schemas_identical is true exactly when the two schemas have the
\* same number of columns, no column of both has two different declared
\* types, and no subset is requested (an empty string requests none).
C12_IdenticalFlag ==
    schema_analysis # None =>
        LET N1 == { schema1[i][1] : i \in DOMAIN schema1 }
            N2 == { schema2[i][1] : i \in DOMAIN schema2 }
        IN  Val(schema_analysis).schemas_identical
                <=> /\ Len(schema1) = Len(schema2)
                    /\ \A n \in N1 \cap N2 : TypeAt(schema1, n) = TypeAt(schema2, n)
                    /\ ~SubsetRequested

\* C12 witness: the flag is true of two equal two-column schemas
C12_Witness ==
    /\ schema_analysis # None
    /\ Val(schema_analysis).schemas_identical
    /\ schema1 = schema2
    /\ Len(schema1) = 2

(***************************************************************************)
(* The QueryBuilder functions called alone                                 *)
(***************************************************************************)
MaxPad == 2         \* blanks before and after a clause fragment: 0..MaxPad

Blanks(n) == [ i \in 1..n |-> " " ]

\* filter fragments without the blanks around them: nothing, a bare
\* predicate, the keyword alone, the keyword in three casings before a
\* predicate, two predicates whose first identifier starts with the keyword
WhereBodies ==
    { << >>,
      << "x" >>,
      << "w", "h", "e", "r", "e" >>,
      << "w", "h", "e", "r", "e", " ", "x" >>,
      << "W", "H", "E", "R", "E", " ", "x" >>,
      << "W", "h", "e", "r", "E", " ", "x" >>,
      << "w", "h", "e", "r", "e", "x" >>,
      << "w", "h", "e", "r", "e", "a", "b", "o", "u", "t", "s", " ", "=", " ", "1" >> }

\* ordering fragments without the blanks around them: nothing, a bare
\* column, the keyword pair in two casings, with two blanks and with a tab
\* between the two keywords, the first keyword alone
OrderBodies ==
    { << >>,
      << "y" >>,
      << "o", "r", "d", "e", "r", " ", "b", "y", " ", "y" >>,
      << "O", "R", "D", "E", "R", " ", "B", "Y", " ", "y" >>,
      << "o", "r", "d", "e", "r", " ", " ", "b", "y", " ", "y" >>,
      << "o", "r", "d", "e", "r", "\t", "b", "y", " ", "y" >>,
      << "o", "r", "d", "e", "r" >> }

\* the calls of one normalizer: None, and every body with blanks around it;
\* core is the fragment without those blanks
NormalizeCalls(name, bodies) ==
    { [ name |-> name, arg |-> None, core |-> << >> ] }
    \cup { [ name |-> name,
             arg |-> Some(Blanks(l) \o b \o Blanks(r)),
             core |-> b ] :
           l \in 0..MaxPad, r \in 0..MaxPad, b \in bodies }

\* explicit column strings: absent, empty, two names, one name
ExplicitColumns ==
    { None, Some(<< >>), Some(<< "x", ",", "y" >>), Some(<< "a" >>) }

\* column names of a derived set; "B" sorts before "a", "a" before "ab"
BuilderNames == { << "a" >>, << "b" >>, << "c" >>, << "a", "b" >>, << "B" >> }

\* derived common-column sets: absent, or a set in one of its iteration
\* orders
DerivedColumns ==
    { None } \cup { Some(o) : o \in UNION { Orders(S) : S \in SUBSET BuilderNames } }

ColumnListCalls ==
    { [ name |-> "build_column_list", arg |-> << e, d >>, core |-> << >> ] :
      e \in ExplicitColumns, d \in DerivedColumns }

MaxQueries == 3     \* sub-queries of one union: 1..MaxQueries

TableP == << "p", ".", "d", ".", "t" >>
TableQ == << "q", ".", "d", ".", "u" >>

\* the two relations, in both roles
TablePairs == { << TableP, TableQ >>, << TableQ, TableP >> }

\* projections: the wildcard and a derived list
Projections == { << "*" >>, << "a", ",", " ", "b" >> }

\* normalized filters: none, or a predicate
Filters == { None, Some(<< "w", "h", "e", "r", "e", " ", "x" >>) }

\* normalized orderings: none, or one column
Orderings == { None, Some(<< "o", "r", "d", "e", "r", " ", "b", "y", " ", "y" >>) }

\* row caps: none, or the cap of the samples
Limits == { None, Some(SampleLimit) }

\* provenance labels: none, or the label of relation t
SourceColumns == { None, Some(source_column(<< "t" >>)) }

ExceptCalls ==
    { [ name |-> "build_except_distinct_query",
        arg |-> << tt[1], tt[2], c, w, o, l, s >>,
        core |-> << >> ] :
      tt \in TablePairs, c \in Projections, w \in Filters, o \in Orderings,
      l \in Limits, s \in SourceColumns }

\* sub-queries of a union: the two labelled set-differences of the export
SubQueries ==
    { build_except_distinct_query(TableP, TableQ, << "*" >>, None, None, None,
                                  Some(source_column(<< "t" >>))),
      build_except_distinct_query(TableQ, TableP, << "*" >>, None, None, None,
                                  Some(source_column(<< "u" >>))) }

UnionCalls ==
    { [ name |-> "build_union_query", arg |-> << qs, o >>, core |-> << >> ] :
      qs \in UNION { [1..n -> SubQueries] : n \in 1..MaxQueries },
      o \in Orderings }

ExportCalls ==
    { [ name |-> "export_all_differences",
        arg |-> << TableP, TableQ, << "t" >>, << "u" >>, c, w, o >>,
        core |-> << >> ] :
      c \in Projections, w \in Filters, o \in Orderings }

\* limit arguments of get_sample_differences: none, one row, the default
SampleLimits == { 0, 1, SampleLimit }

SampleCalls ==
    { [ name |-> "get_sample_differences",
        arg |-> << TableP, TableQ, c, w, o, l >>,
        core |-> << >> ] :
      c \in Projections, w \in Filters, o \in Orderings, l \in SampleLimits }

\* fn_in.arg is the argument of the call, or the tuple of its arguments
BuilderCalls ==
    NormalizeCalls("normalize_where_clause", WhereBodies)
    \cup NormalizeCalls("normalize_order_by_clause", OrderBodies)
    \cup ColumnListCalls
    \cup ExceptCalls
    \cup UnionCalls
    \cup ExportCalls
    \cup SampleCalls

\* the process is not running: only a QueryBuilder function is called
RunIdle ==
    /\ table1 = << "p", ".", "d", ".", "t" >>
    /\ table2 = << "q", ".", "d", ".", "t" >>
    /\ specific_columns = None
    /\ args_where_clause = None
    /\ args_order_by_clause = None
    /\ LocalsUnset
    /\ parts1 = << >>
    /\ parts2 = << >>
    /\ client_created = FALSE
    /\ exec_called = FALSE
    /\ pending = None
    /\ queries = << >>
    /\ calls = << >>
    /\ schema1 = << >>
    /\ schema2 = << >>
    /\ schema_analysis = None
    /\ count1 = None
    /\ count2 = None
    /\ has_differences = None
    /\ stdout = << >>
    /\ sink_writes = << >>
    /\ sink_file = None
    /\ exit_status = None

runVars == << inputs, locals, results, parts1, parts2, client_created,
              exec_called, pending, queries, calls, stdout, sink_writes, sink_file,
              exit_status >>

InitBuilder ==
    /\ pc = "fn"
    /\ fn_in \in BuilderCalls
    /\ fn_out = << >>
    /\ RunIdle

\* normalize_where_clause(fragment)
CallNormalizeWhere ==
    /\ pc = "fn"
    /\ fn_in.name = "normalize_where_clause"
    /\ fn_out' = << normalize_where_clause(fn_in.arg) >>
    /\ pc' = "fn_done"
    /\ UNCHANGED << fn_in, runVars >>

\* normalize_where_clause applied to its own result
CallNormalizeWhereAgain ==
    /\ pc = "fn_done"
    /\ fn_in.name = "normalize_where_clause"
    /\ fn_out' = Append(fn_out, normalize_where_clause(fn_out[1]))
    /\ pc' = "fn_again"
    /\ UNCHANGED << fn_in, runVars >>

\* normalize_order_by_clause(fragment)
CallNormalizeOrderBy ==
    /\ pc = "fn"
    /\ fn_in.name = "normalize_order_by_clause"
    /\ fn_out' = << normalize_order_by_clause(fn_in.arg) >>
    /\ pc' = "fn_done"
    /\ UNCHANGED << fn_in, runVars >>

\* normalize_order_by_clause applied to its own result
CallNormalizeOrderByAgain ==
    /\ pc = "fn_done"
    /\ fn_in.name = "normalize_order_by_clause"
    /\ fn_out' = Append(fn_out, normalize_order_by_clause(fn_out[1]))
    /\ pc' = "fn_again"
    /\ UNCHANGED << fn_in, runVars >>

\* build_column_list(columns, common_columns)
CallBuildColumnList ==
    /\ pc = "fn"
    /\ fn_in.name = "build_column_list"
    /\ fn_out' = << build_column_list(fn_in.arg[1], fn_in.arg[2]) >>
    /\ pc' = "fn_done"
    /\ UNCHANGED << fn_in, runVars >>

\* build_except_distinct_query(table1, table2, columns, where_clause,
\* order_by_clause, limit, add_source_column)
CallBuildExceptDistinctQuery ==
    /\ pc = "fn"
    /\ fn_in.name = "build_except_distinct_query"
    /\ LET a == fn_in.arg
       IN  fn_out' = << build_except_distinct_query(
                           a[1], a[2], a[3], a[4], a[5], a[6], a[7]) >>
    /\ pc' = "fn_done"
    /\ UNCHANGED << fn_in, runVars >>

\* build_union_query(queries, order_by_clause)
CallBuildUnionQuery ==
    /\ pc = "fn"
    /\ fn_in.name = "build_union_query"
    /\ fn_out' = << build_union_query(fn_in.arg[1], fn_in.arg[2]) >>
    /\ pc' = "fn_done"
    /\ UNCHANGED << fn_in, runVars >>

\* the query export_all_differences composes
CallExportQuery ==
    /\ pc = "fn"
    /\ fn_in.name = "export_all_differences"
    /\ LET a == fn_in.arg
       IN  fn_out' = << export_query(a[1], a[2], a[3], a[4], a[5], a[6],
                                    a[7]) >>
    /\ pc' = "fn_done"
    /\ UNCHANGED << fn_in, runVars >>

\* the two queries get_sample_differences composes
CallSampleQueries ==
    /\ pc = "fn"
    /\ fn_in.name = "get_sample_differences"
    /\ LET a == fn_in.arg
       IN  fn_out' = << sample_queries(a[1], a[2], a[3], a[4], a[5], a[6]) >>
    /\ pc' = "fn_done"
    /\ UNCHANGED << fn_in, runVars >>

NextBuilder ==
    \/ CallNormalizeWhere
    \/ CallNormalizeWhereAgain
    \/ CallNormalizeOrderBy
    \/ CallNormalizeOrderByAgain
    \/ CallBuildColumnList
    \/ CallBuildExceptDistinctQuery
    \/ CallBuildUnionQuery
    \/ CallExportQuery
    \/ CallSampleQueries

SpecBuilder == InitBuilder /\ [][NextBuilder]_vars

\* C13: normalize_where_clause applied to its own result returns that
\* result, for every fragment: None, empty, blanks only, and the others.
C13_NormalizeWhereIdempotent ==
    (pc = "fn_again" /\ fn_in.name = "normalize_where_clause") =>
        fn_out[2] = fn_out[1]

\* filter fragments that begin with the keyword, in some casing
WhereKeywordBodies ==
    { << "w", "h", "e", "r", "e" >>,
      << "w", "h", "e", "r", "e", " ", "x" >>,
      << "W", "H", "E", "R", "E", " ", "x" >>,
      << "W", "h", "e", "r", "E", " ", "x" >> }

\* C14: a fragment that begins with the keyword "where", in any casing and
\* with any blanks around it, is returned without those blanks and
\* otherwise unchanged: the casing is kept and no second keyword is added.
C14_KeywordFragmentOnlyTrimmed ==
    (pc # "fn" /\ fn_in.name = "normalize_where_clause"
        /\ fn_in.arg # None /\ fn_in.core \in WhereKeywordBodies) =>
        fn_out[1] = Some(fn_in.core)

\* C14 witness: an upper-case keyword with blanks on both sides
C14_Witness ==
    /\ pc = "fn_done"
    /\ fn_in.name = "normalize_where_clause"
    /\ fn_in.arg = Some(<< " ", " ", "W", "H", "E", "R", "E", " ", "x", " " >>)
    /\ fn_out = << Some(<< "W", "H", "E", "R", "E", " ", "x" >>) >>

\* ordering fragments that begin with the keyword pair, in some casing and
\* with some white space between the two keywords
OrderKeywordBodies ==
    { << "o", "r", "d", "e", "r", " ", "b", "y", " ", "y" >>,
      << "O", "R", "D", "E", "R", " ", "B", "Y", " ", "y" >>,
      << "o", "r", "d", "e", "r", " ", " ", "b", "y", " ", "y" >>,
      << "o", "r", "d", "e", "r", "\t", "b", "y", " ", "y" >> }

\* C15: normalize_order_by_clause returns None for an empty fragment, a
\* fragment that begins with the keyword pair (any casing, any white space
\* before it and between the two keywords) comes back trimmed with no
\* second keyword pair, and applying it to its own result changes nothing.
C15_NormalizeOrderByContract ==
    (pc # "fn" /\ fn_in.name = "normalize_order_by_clause") =>
        /\ (fn_in.arg = None \/ fn_in.arg = Some(<< >>)) => fn_out[1] = None
        /\ (fn_in.arg # None /\ fn_in.core \in OrderKeywordBodies) =>
               fn_out[1] = Some(fn_in.core)
        /\ pc = "fn_again" => fn_out[2] = fn_out[1]

\* the names of BuilderNames in lexicographic order
NamesInOrder == << << "B" >>, << "a" >>, << "a", "b" >>, << "b" >>, << "c" >> >>

\* the names of S in lexicographic order, joined by ", "
Rendered(S) ==
    Join(SelectSeq(NamesInOrder, LAMBDA n : n \in S), << ",", " " >>)

\* C16 as stated: an explicit string that is present (not None) is returned
\* verbatim, otherwise a derived set that is present is rendered sorted and
\* joined by ", ", otherwise "*".
C16_ExplicitThenDerivedThenWildcard ==
    (pc = "fn_done" /\ fn_in.name = "build_column_list") =>
        LET e == fn_in.arg[1]
            d == fn_in.arg[2]
        IN  IF e # None THEN fn_out[1] = Val(e)
            ELSE IF d # None THEN fn_out[1] = Rendered(SeqRange(Val(d)))
            ELSE fn_out[1] = << "*" >>

\* C16 amended: a non-empty explicit string is returned verbatim; otherwise
\* a non-empty derived set is rendered in lexicographic order joined by
\* ", ", the same text for every iteration order; otherwise (each of the
\* two absent or empty) the result is "*".
C16_NonEmptyExplicitThenDerivedThenWildcard ==
    (pc = "fn_done" /\ fn_in.name = "build_column_list") =>
        LET e == fn_in.arg[1]
            d == fn_in.arg[2]
        IN  IF e # None /\ Val(e) # << >> THEN fn_out[1] = Val(e)
            ELSE IF d # None /\ Val(d) # << >>
                 THEN fn_out[1] = Rendered(SeqRange(Val(d)))
                 ELSE fn_out[1] = << "*" >>

\* C16 witness: the set {b, a, c} iterated as b, a, c gives "a, b, c"
C16_Witness ==
    /\ pc = "fn_done"
    /\ fn_in.name = "build_column_list"
    /\ fn_in.arg = << None, Some(<< << "b" >>, << "a" >>, << "c" >> >>) >>
    /\ fn_out = << << "a", ",", " ", "b", ",", " ", "c" >> >>

\* how many times the atoms of pattern occur in text, one after another
Occurrences(text, pattern) ==
    Cardinality({ i \in 1..(Len(text) - Len(pattern) + 1) :
                    SubSeq(text, i, i + Len(pattern) - 1) = pattern })

EndsWith(text, suffix) ==
    /\ Len(suffix) <= Len(text)
    /\ SubSeq(text, Len(text) - Len(suffix) + 1, Len(text)) = suffix

\* SELECT *, '<label>' as source_table FROM (
LabelledWrap(label) ==
    << "SELECT", " ", "*,", " ", "'" >> \o label
    \o << "'", " ", "as", " ", "source_table", " ", "FROM", " ", "(" >>

\* SELECT <columns> FROM <t1>[ <filter>] EXCEPT DISTINCT
\* SELECT <columns> FROM <t2>[ <filter>]
SetDifference(t1, t2, cols, where) ==
    LET filter == IF where = None THEN << >> ELSE << " " >> \o Val(where)
    IN  << "SELECT", " " >> \o cols \o << " ", "FROM", " " >> \o t1 \o filter
        \o << "\n", "EXCEPT", " ", "DISTINCT", "\n" >>
        \o << "SELECT", " " >> \o cols \o << " ", "FROM", " " >> \o t2 \o filter

\* the row cap at the end of a query, or nothing
Cap(limit) ==
    IF limit = None THEN << >> ELSE << " ", "LIMIT", " ", "1", "0" >>

\* C17: with a provenance label and no ordering clause the query is the
\* set-difference inside exactly one outer projection
\* SELECT *, '<label>' as source_table FROM (...), followed by the row cap
\* if any; and for every combination of label, ordering clause and row cap
\* at most one parenthesis is opened and at most three SELECTs are
\* written, so no wrap is nested in another.
C17_OneLabelledWrap ==
    (pc = "fn_done" /\ fn_in.name = "build_except_distinct_query") =>
        LET a == fn_in.arg
            out == fn_out[1]
        IN  /\ (a[7] # None /\ a[5] = None) =>
                   /\ out = LabelledWrap(Val(a[7])) \o << "\n" >>
                            \o SetDifference(a[1], a[2], a[3], a[4])
                            \o << ")" >> \o Cap(a[6])
                   /\ Occurrences(out, LabelledWrap(Val(a[7]))) = 1
            /\ Occurrences(out, << "(" >>) <= 1
            /\ Occurrences(out, << ")" >>) = Occurrences(out, << "(" >>)
            /\ Occurrences(out, << "SELECT" >>) <= 3

\* C17 witness: a label, no ordering clause, no row cap
C17_Witness ==
    /\ pc = "fn_done"
    /\ fn_in.name = "build_except_distinct_query"
    /\ fn_in.arg[7] = Some(<< "e", "x", "c", "l", "u", "s", "i", "v", "e", "_", "t", "o", "_", "t" >>)
    /\ fn_in.arg[5] = None
    /\ fn_in.arg[6] = None
    /\ Occurrences(fn_out[1], << "EXCEPT", " ", "DISTINCT" >>) = 1
    /\ Occurrences(fn_out[1], << "source_table" >>) = 1

\* C18: over the 8 combinations of label, ordering clause and row cap, the
\* set-difference is inside one outer projection exactly when a label or
\* an ordering clause is given, and is the whole query (before the row
\* cap) otherwise; an ordering clause comes once, after the parenthesis
\* that closes the set-difference, never directly after its second branch.
C18_WrapIffLabelOrOrdering ==
    (pc = "fn_done" /\ fn_in.name = "build_except_distinct_query") =>
        LET a == fn_in.arg
            out == fn_out[1]
            inner == SetDifference(a[1], a[2], a[3], a[4])
            outer == IF a[7] # None THEN LabelledWrap(Val(a[7]))
                     ELSE << "SELECT", " ", "*", " ", "FROM", " ", "(" >>
            ordering == IF a[5] = None THEN << >> ELSE << " " >> \o Val(a[5])
        IN  /\ (a[7] # None \/ a[5] # None) =>
                   out = outer \o << "\n" >> \o inner \o << ")" >>
                         \o ordering \o Cap(a[6])
            /\ (a[7] = None /\ a[5] = None) => out = inner \o Cap(a[6])
            /\ a[5] # None =>
                   /\ Occurrences(out, Val(a[5])) = 1
                   /\ Occurrences(out, << ")", " " >> \o Val(a[5])) = 1
                   /\ Occurrences(out, inner \o << " " >> \o Val(a[5])) = 0

\* C18 witness: an ordering clause and a row cap without a label, wrapped
\* in the plain outer projection
C18_Witness ==
    /\ pc = "fn_done"
    /\ fn_in.name = "build_except_distinct_query"
    /\ fn_in.arg[7] = None
    /\ fn_in.arg[5] # None
    /\ fn_in.arg[6] # None
    /\ StartsWith(fn_out[1], << "SELECT", " ", "*", " ", "FROM", " ", "(" >>)
    /\ EndsWith(fn_out[1], << ")", " " >> \o Val(fn_in.arg[5])
                           \o << " ", "LIMIT", " ", "1", "0" >>)

\* (q1) UNION ALL (q2) UNION ALL ...
RECURSIVE BareUnion(_)
BareUnion(qs) ==
    IF Len(qs) = 1 THEN << "(" >> \o qs[1] \o << ")" >>
    ELSE BareUnion(SubSeq(qs, 1, Len(qs) - 1))
         \o << " ", "UNION", " ", "ALL", " ", "(" >> \o qs[Len(qs)] \o << ")" >>

\* the two labelled set-differences of the export, without any ordering
ExportBranches(a) ==
    << LabelledWrap(<< "e", "x", "c", "l", "u", "s", "i", "v", "e", "_", "t", "o", "_" >> \o a[3]) \o << "\n" >>
         \o SetDifference(a[1], a[2], a[5], a[6]) \o << ")" >>,
       LabelledWrap(<< "e", "x", "c", "l", "u", "s", "i", "v", "e", "_", "t", "o", "_" >> \o a[4]) \o << "\n" >>
         \o SetDifference(a[2], a[1], a[5], a[6]) \o << ")" >> >>

\* the union of qs, with the ordering clause (if any) applied once, outside
OrderedOutside(out, qs, order) ==
    IF order = None THEN out = BareUnion(qs)
    ELSE /\ out = << "SELECT", " ", "*", " ", "FROM", " ", "(" >>
                  \o BareUnion(qs) \o << ")", " " >> \o Val(order)
         /\ Occurrences(out, Val(order)) = 1
         /\ \A i \in 1..Len(qs) : Occurrences(qs[i], Val(order)) = 0

\* C19: build_union_query with an ordering clause returns
\* SELECT * FROM (<union>) <ordering>, the ordering written once and after
\* the UNION ALL of all sub-queries; without one it returns the bare
\* union; the query export_all_differences composes is that union of its
\* two labelled set-differences, neither of which holds the ordering.
C19_OrderingOnceOutsideTheUnion ==
    /\ (pc = "fn_done" /\ fn_in.name = "build_union_query") =>
           OrderedOutside(fn_out[1], fn_in.arg[1], fn_in.arg[2])
    /\ (pc = "fn_done" /\ fn_in.name = "export_all_differences") =>
           OrderedOutside(fn_out[1], ExportBranches(fn_in.arg), fn_in.arg[7])

\* C19 witness: the export composed with a filter and an ordering clause
C19_Witness ==
    /\ pc = "fn_done"
    /\ fn_in.name = "export_all_differences"
    /\ fn_in.arg[6] # None
    /\ fn_in.arg[7] # None
    /\ Occurrences(fn_out[1], << "UNION", " ", "ALL" >>) = 1
    /\ EndsWith(fn_out[1], << ")", ")", " " >> \o Val(fn_in.arg[7]))

(***************************************************************************)
(* The run with --where and --order-by given                               *)
(***************************************************************************)
\* --where values: none, a bare predicate with blanks around it, a
\* predicate after the keyword in upper case
WhereInputs == { None, Some(<< " ", "x", " " >>), Some(<< "W", "H", "E", "R", "E", " ", "x" >>) }

\* --order-by values: none, a bare column
OrderByInputs == { None, Some(<< "y" >>) }

\* --specific-columns values: none, one common column
ProjectionInputs == { None, Some(<< "a" >>) }

InitClauses ==
    /\ pc = "main"
    /\ table1 = TableP
    /\ table2 = TableQ
    /\ specific_columns \in ProjectionInputs
    /\ args_where_clause \in WhereInputs
    /\ args_order_by_clause \in OrderByInputs
    /\ LocalsUnset
    /\ NoCall
    /\ parts1 = << >>
    /\ parts2 = << >>
    /\ client_created = FALSE
    /\ exec_called = FALSE
    /\ pending = None
    /\ queries = << >>
    /\ calls = << >>
    /\ schema1 = << >>
    /\ schema2 = << >>
    /\ schema_analysis = None
    /\ count1 = None
    /\ count2 = None
    /\ has_differences = None
    /\ stdout = << >>
    /\ sink_writes = << >>
    /\ sink_file = None
    /\ exit_status = None

SpecClauses == InitClauses /\ [][Next]_vars

\* the count queries issued so far
CountQueries ==
    SelectSeq(queries, LAMBDA q : q.step \in { "count1", "count2" })

\* the filter a count query must carry for each --where value
ExpectedFilter ==
    IF args_where_clause = None THEN << >>
    ELSE << " " >> \o
         (IF args_where_clause = Some(<< " ", "x", " " >>)
          THEN << "w", "h", "e", "r", "e", " ", "x" >>
          ELSE << "W", "H", "E", "R", "E", " ", "x" >>)

\* SELECT COUNT(*) as count FROM <table>[ <filter>]
ExpectedCountQuery(table) ==
    << "SELECT", " ", "COUNT(*)", " ", "as", " ", "count", " ", "FROM", " " >>
    \o table \o ExpectedFilter

\* C20: the row-count step issues one count query per relation, the first
\* relation's first, two in all once both counts are in; both have the text
\* SELECT COUNT(*) as count FROM <relation> followed by the same
\* normalized filter, or by nothing when no filter is given; the ordering
\* clause and the projection occur in neither; and the run reports the
\* absolute difference of the two counts.
C20_TwoCountQueriesSameFilter ==
    /\ Len(CountQueries) <= 2
    /\ count2 # None => Len(CountQueries) = 2
    /\ Len(CountQueries) >= 1 =>
           /\ CountQueries[1].step = "count1"
           /\ CountQueries[1].text = ExpectedCountQuery(table1)
    /\ Len(CountQueries) = 2 =>
           /\ CountQueries[2].step = "count2"
           /\ CountQueries[2].text = ExpectedCountQuery(table2)
    /\ \A i \in DOMAIN CountQueries :
           /\ order_by_clause # None =>
                  Occurrences(CountQueries[i].text, Val(order_by_clause)) = 0
           /\ columns # << >> =>
                  Occurrences(CountQueries[i].text, columns) = 0
    /\ count2 # None =>
           \E d \in 0..MaxCount :
               /\ Val(count1) = Val(count2) + d \/ Val(count2) = Val(count1) + d
               /\ Reported("Difference: " \o Digit[d + 1] \o " rows")

\* C20 witness: both counts are in and differ, with a filter, an ordering
\* clause and a projection in the run
C20_Witness ==
    /\ count1 # None /\ count2 # None /\ count1 # count2
    /\ where_clause # None
    /\ order_by_clause # None
    /\ columns # << >>
    /\ Len(CountQueries) = 2
    /\ Reported("Difference: 1 rows")

\* the digits of the limits of SampleLimits
LimitDigits(n) ==
    IF n = 0 THEN << "0" >> ELSE IF n = 1 THEN << "1" >> ELSE << "1", "0" >>

\* C21: for every limit given to get_sample_differences, 0 included, and
\* with or without an ordering clause, each of the two sample queries ends
\* with the row cap LIMIT <limit>, which comes after the ordering clause
\* when there is one.
C21_EachSampleQueryEndsWithItsCap ==
    (pc = "fn_done" /\ fn_in.name = "get_sample_differences") =>
        \A k \in 1..2 :
            LET out == fn_out[1][k]
                cap == << " ", "LIMIT", " " >> \o LimitDigits(fn_in.arg[6])
            IN  /\ EndsWith(out, cap)
                /\ fn_in.arg[5] # None =>
                       EndsWith(out, << " " >> \o Val(fn_in.arg[5]) \o cap)

(***************************************************************************)
(* The run with a file that an earlier run may have left                   *)
(***************************************************************************)
\* table_row_differences.csv before the run: absent, or written by an
\* earlier run, which writes one row at least
EarlierFiles ==
    { None } \cup { Some([ run |-> "earlier", rows |-> k ]) : k \in 1..MaxRows }

InitSink ==
    /\ pc = "main"
    /\ table1 = TableP
    /\ table2 = TableQ
    /\ specific_columns \in ProjectionInputs
    /\ args_where_clause = None
    /\ args_order_by_clause = None
    /\ LocalsUnset
    /\ NoCall
    /\ parts1 = << >>
    /\ parts2 = << >>
    /\ client_created = FALSE
    /\ exec_called = FALSE
    /\ pending = None
    /\ queries = << >>
    /\ calls = << >>
    /\ schema1 = << >>
    /\ schema2 = << >>
    /\ schema_analysis = None
    /\ count1 = None
    /\ count2 = None
    /\ has_differences = None
    /\ stdout = << >>
    /\ sink_writes = << >>
    /\ sink_file \in EarlierFiles
    /\ exit_status = None

SpecSink == InitSink /\ [][Next]_vars

\* the sink at every moment of a run
SinkState ==
    /\ Len(sink_writes) <= 1
    /\ ~Returned("export") => sink_writes = << >>
    /\ sink_writes # << >> =>
           /\ sink_writes[1] > 0
           /\ sink_file = Some([ run |-> "this", rows |-> sink_writes[1] ])
           /\ Reported("(" \o Digit[sink_writes[1] + 1] \o " rows)")
    /\ (Returned("export") /\ sink_writes = << >>) =>
           /\ Reported("(0 rows)")
           /\ sink_file \in EarlierFiles

\* the sink changes only in the step in which the export result arrives,
\* and only when that result has a row
SinkStep ==
    sink_file' # sink_file =>
        \E n \in 1..MaxRows :
            /\ pending = Some("export")
            /\ pending' = None
            /\ sink_writes' = Append(sink_writes, n)
            /\ sink_file' = Some([ run |-> "this", rows |-> n ])

\* C22: in any run the sink is written at most once, in the step that
\* receives the whole result of the export query and only when that result
\* has a row; the number of rows reported is the number written, and an
\* empty result is reported as 0 rows and leaves the sink as it was, a file
\* of an earlier run included.
C22_SinkWrittenOnceAfterExport == [] SinkState /\ [][SinkStep]_vars

\* C22 witness: the export returned no row and the file an earlier run
\* left is still there
C22_Witness ==
    /\ Returned("export")
    /\ sink_writes = << >>
    /\ sink_file = Some([ run |-> "earlier", rows |-> 1 ])
    /\ Reported("(0 rows)")

\* the steps whose queries read rows of the two relations by a projection
DataSteps == { "exists", "sample1", "sample2", "export" }

\* the column names a projection lists
ProjectedNames(cols) ==
    { ToStr(Strip(Split(cols, ",")[k])) : k \in DOMAIN Split(cols, ",") }

\* C23: in a run on two well-formed, different relations, every existence,
\* sample and export query selects the projection the run built, and that
\* projection names only columns of the reconciled common-column set, so
\* none that is reported in missing_specified_cols.
C23_ProjectionWithinCommonColumns ==
    (WellFormedRun /\ table1 # table2) =>
        \A i \in DOMAIN queries :
            queries[i].step \in DataSteps =>
                /\ Occurrences(queries[i].text,
                               << "SELECT", " " >> \o columns
                               \o << " ", "FROM", " " >>) >= 1
                /\ ProjectedNames(columns)
                       \subseteq Val(schema_analysis).common_columns
                /\ ProjectedNames(columns)
                       \cap Val(schema_analysis).missing_specified_cols = {}

\* C24: whenever analyze_schemas reports schemas_identical = TRUE, the two
\* schemas have the same column names: only_in_table1 and only_in_table2
\* are empty and common_columns is the column set of each schema.
C24_IdenticalMeansSameColumnNames ==
    (pc = "fn_done" /\ schema_analysis # None
        /\ Val(schema_analysis).schemas_identical) =>
        /\ Val(schema_analysis).only_in_table1 = {}
        /\ Val(schema_analysis).only_in_table2 = {}
        /\ Val(schema_analysis).common_columns = ColumnSet(schema1)
        /\ Val(schema_analysis).common_columns = ColumnSet(schema2)

StepsIssued == [ i \in DOMAIN queries |-> queries[i].step ]

\* C26: a run that has ended without a collaborator error has sent exactly
\* 2 queries (the two schema queries) when there are no common columns,
\* exactly 5 for PASS (2 schema, 2 count, 1 existence check) and exactly 8
\* for FAIL (those 5, 2 sample queries, 1 export query); in every run the
\* existence check is sent at most once, and once when its result is known,
\* and the query the engine is asked holds both set-differences joined by OR.
C26_QueriesPerRun ==
    /\ TimesIssued("exists") <= 1
    /\ has_differences # None => TimesIssued("exists") = 1
    /\ (pc = "done" /\ exec_called /\ ~\E step \in StepSet : Raised(step)) =>
           /\ Reported("ERROR: No common columns") =>
                  StepsIssued = << "schema1", "schema2" >>
           /\ Reported("Test Result: PASS") =>
                  /\ Len(queries) = 5
                  /\ StepsIssued = << "schema1", "schema2", "count1", "count2",
                                      "exists" >>
           /\ Reported("Test Result: FAIL") =>
                  /\ Len(queries) = 8
                  /\ StepsIssued = << "schema1", "schema2", "count1", "count2",
                                      "exists", "sample1", "sample2", "export" >>
           /\ Len(queries) \in { 2, 5, 8 }
    /\ pending = Some("exists") =>
           LET text == queries[Len(queries)].text
           IN  /\ Occurrences(text, << "EXISTS", " ", "(" >>) = 2
               /\ Occurrences(text, << ")", " ", "OR", " ", "EXISTS" >>) = 1
               /\ Occurrences(text, << "EXCEPT", " ", "DISTINCT" >>) = 2

\* C26 witness: a FAIL run on two well-formed paths has ended, 8 queries
\* sent and none raised
C26_Witness ==
    /\ WellFormedRun
    /\ pc = "done"
    /\ has_differences = Some(TRUE)
    /\ Len(queries) = 8
    /\ Len(calls) = 17

\* a clause: no white space at either end, the keyword "where" in some
\* casing, white space after it, and a predicate that is not empty
WellFormedClause(r) ==
    /\ Len(r) > Len(KwWhere) + 1
    /\ ~IsSpace(r[1])
    /\ ~IsSpace(r[Len(r)])
    /\ Lower(SubSeq(r, 1, Len(KwWhere))) = KwWhere
    /\ IsSpace(r[Len(KwWhere) + 1])

\* C27: every result of normalize_where_clause other than None is a
\* well-formed clause, for fragments of white space only and for bare
\* predicates whose first identifier starts with the letters "where" too.
C27_ResultIsWellFormedClause ==
    (pc = "fn_done" /\ fn_in.name = "normalize_where_clause"
        /\ fn_out[1] # None) =>
        WellFormedClause(Val(fn_out[1]))

====
